---- MODULE Spec2Model ----
(***************************************************************************)
(* Host-side driver of a tunable optical filter (src/filter.py).           *)
(*                                                                         *)
(* Text is modelled as sequences of one-character strings, the serial      *)
(* transport as an input buffer plus the list of operations performed on   *)
(* it, and a call of scan / set_channel as a process whose positions are   *)
(* the blocking reads of the code.  Wavelengths are integers in hundredths *)
(* of a nanometre, stay times integers in hundredths of a second.          *)
(***************************************************************************)
EXTENDS Integers, Sequences, FiniteSets, TLC

VARIABLES pc, args, log, inbuf, prev, outcome, progress, warned, nreads

vars == <<pc, args, log, inbuf, prev, outcome, progress, warned, nreads>>

(***************************************************************************)
(* Bounds of the model and constants of the program.                       *)
(***************************************************************************)
MaxSweepReads == 3
MaxPorts == 2

LoWl == 1510
HiWl == 1589
LoStay == 1
HiStay == 300
LoSpan == 1
HiSpan == 30
FieldWidth == 4
\* timeout = 0.1 of the probe, in tenths of a second
ProbeTimeout == 1
\* the most digits int() converts; a longer text raises ValueError
MaxStrDigits == 4300
\* ints of up to this many digits are held as numbers, longer ones as digits
SmallDigits == 9

(***************************************************************************)
(* Python values and call outcomes.                                        *)
(***************************************************************************)
PyNone == [t |-> "None", v |-> 0, big |-> <<>>]
PyInt(n) == [t |-> "int", v |-> n, big |-> <<>>]
\* an int of more than SmallDigits digits: its sign and its decimal digits
PyBigInt(sign, digits) == [t |-> "bigint", v |-> sign, big |-> digits]
\* a float that is v/10, the result of  int / 10
PyTenths(n) == [t |-> "tenths", v |-> n, big |-> <<>>]
\* the float nearest to a tenth of an int of more than SmallDigits digits
PyBigTenths(sign, digits) == [t |-> "bigtenths", v |-> sign, big |-> digits]
\* the serial.Serial object opened on the n-th port
PySerial(n) == [t |-> "Serial", v |-> n, big |-> <<>>]

NoOutcome == [kind |-> "none", exc |-> "", field |-> "", raw |-> <<>>, val |-> <<>>]
Return(v) == [kind |-> "return", exc |-> "", field |-> "", raw |-> <<>>, val |-> v]
Raise(e, f, r) == [kind |-> "raise", exc |-> e, field |-> f, raw |-> r, val |-> <<>>]

(***************************************************************************)
(* Text helpers: str, str.zfill, str.find, str.startswith, slicing, int(). *)
(***************************************************************************)
\* the digits str() writes
Digits == <<"0", "1", "2", "3", "4", "5", "6", "7", "8", "9">>

\* the decimal digits int() reads: the ASCII digits and the digits 0 to 9 of
\* every other script of Unicode 14; "u0661" stands for the one character
\* U+0661, and so on
DigitRows ==
    <<
       <<"0", "1", "2", "3", "4", "5", "6", "7", "8", "9">>,
       <<"u0660", "u0661", "u0662", "u0663", "u0664", "u0665", "u0666", "u0667", "u0668", "u0669">>,
       <<"u06F0", "u06F1", "u06F2", "u06F3", "u06F4", "u06F5", "u06F6", "u06F7", "u06F8", "u06F9">>,
       <<"u07C0", "u07C1", "u07C2", "u07C3", "u07C4", "u07C5", "u07C6", "u07C7", "u07C8", "u07C9">>,
       <<"u0966", "u0967", "u0968", "u0969", "u096A", "u096B", "u096C", "u096D", "u096E", "u096F">>,
       <<"u09E6", "u09E7", "u09E8", "u09E9", "u09EA", "u09EB", "u09EC", "u09ED", "u09EE", "u09EF">>,
       <<"u0A66", "u0A67", "u0A68", "u0A69", "u0A6A", "u0A6B", "u0A6C", "u0A6D", "u0A6E", "u0A6F">>,
       <<"u0AE6", "u0AE7", "u0AE8", "u0AE9", "u0AEA", "u0AEB", "u0AEC", "u0AED", "u0AEE", "u0AEF">>,
       <<"u0B66", "u0B67", "u0B68", "u0B69", "u0B6A", "u0B6B", "u0B6C", "u0B6D", "u0B6E", "u0B6F">>,
       <<"u0BE6", "u0BE7", "u0BE8", "u0BE9", "u0BEA", "u0BEB", "u0BEC", "u0BED", "u0BEE", "u0BEF">>,
       <<"u0C66", "u0C67", "u0C68", "u0C69", "u0C6A", "u0C6B", "u0C6C", "u0C6D", "u0C6E", "u0C6F">>,
       <<"u0CE6", "u0CE7", "u0CE8", "u0CE9", "u0CEA", "u0CEB", "u0CEC", "u0CED", "u0CEE", "u0CEF">>,
       <<"u0D66", "u0D67", "u0D68", "u0D69", "u0D6A", "u0D6B", "u0D6C", "u0D6D", "u0D6E", "u0D6F">>,
       <<"u0DE6", "u0DE7", "u0DE8", "u0DE9", "u0DEA", "u0DEB", "u0DEC", "u0DED", "u0DEE", "u0DEF">>,
       <<"u0E50", "u0E51", "u0E52", "u0E53", "u0E54", "u0E55", "u0E56", "u0E57", "u0E58", "u0E59">>,
       <<"u0ED0", "u0ED1", "u0ED2", "u0ED3", "u0ED4", "u0ED5", "u0ED6", "u0ED7", "u0ED8", "u0ED9">>,
       <<"u0F20", "u0F21", "u0F22", "u0F23", "u0F24", "u0F25", "u0F26", "u0F27", "u0F28", "u0F29">>,
       <<"u1040", "u1041", "u1042", "u1043", "u1044", "u1045", "u1046", "u1047", "u1048", "u1049">>,
       <<"u1090", "u1091", "u1092", "u1093", "u1094", "u1095", "u1096", "u1097", "u1098", "u1099">>,
       <<"u17E0", "u17E1", "u17E2", "u17E3", "u17E4", "u17E5", "u17E6", "u17E7", "u17E8", "u17E9">>,
       <<"u1810", "u1811", "u1812", "u1813", "u1814", "u1815", "u1816", "u1817", "u1818", "u1819">>,
       <<"u1946", "u1947", "u1948", "u1949", "u194A", "u194B", "u194C", "u194D", "u194E", "u194F">>,
       <<"u19D0", "u19D1", "u19D2", "u19D3", "u19D4", "u19D5", "u19D6", "u19D7", "u19D8", "u19D9">>,
       <<"u1A80", "u1A81", "u1A82", "u1A83", "u1A84", "u1A85", "u1A86", "u1A87", "u1A88", "u1A89">>,
       <<"u1A90", "u1A91", "u1A92", "u1A93", "u1A94", "u1A95", "u1A96", "u1A97", "u1A98", "u1A99">>,
       <<"u1B50", "u1B51", "u1B52", "u1B53", "u1B54", "u1B55", "u1B56", "u1B57", "u1B58", "u1B59">>,
       <<"u1BB0", "u1BB1", "u1BB2", "u1BB3", "u1BB4", "u1BB5", "u1BB6", "u1BB7", "u1BB8", "u1BB9">>,
       <<"u1C40", "u1C41", "u1C42", "u1C43", "u1C44", "u1C45", "u1C46", "u1C47", "u1C48", "u1C49">>,
       <<"u1C50", "u1C51", "u1C52", "u1C53", "u1C54", "u1C55", "u1C56", "u1C57", "u1C58", "u1C59">>,
       <<"uA620", "uA621", "uA622", "uA623", "uA624", "uA625", "uA626", "uA627", "uA628", "uA629">>,
       <<"uA8D0", "uA8D1", "uA8D2", "uA8D3", "uA8D4", "uA8D5", "uA8D6", "uA8D7", "uA8D8", "uA8D9">>,
       <<"uA900", "uA901", "uA902", "uA903", "uA904", "uA905", "uA906", "uA907", "uA908", "uA909">>,
       <<"uA9D0", "uA9D1", "uA9D2", "uA9D3", "uA9D4", "uA9D5", "uA9D6", "uA9D7", "uA9D8", "uA9D9">>,
       <<"uA9F0", "uA9F1", "uA9F2", "uA9F3", "uA9F4", "uA9F5", "uA9F6", "uA9F7", "uA9F8", "uA9F9">>,
       <<"uAA50", "uAA51", "uAA52", "uAA53", "uAA54", "uAA55", "uAA56", "uAA57", "uAA58", "uAA59">>,
       <<"uABF0", "uABF1", "uABF2", "uABF3", "uABF4", "uABF5", "uABF6", "uABF7", "uABF8", "uABF9">>,
       <<"uFF10", "uFF11", "uFF12", "uFF13", "uFF14", "uFF15", "uFF16", "uFF17", "uFF18", "uFF19">>,
       <<"u104A0", "u104A1", "u104A2", "u104A3", "u104A4", "u104A5", "u104A6", "u104A7", "u104A8", "u104A9">>,
       <<"u10D30", "u10D31", "u10D32", "u10D33", "u10D34", "u10D35", "u10D36", "u10D37", "u10D38", "u10D39">>,
       <<"u11066", "u11067", "u11068", "u11069", "u1106A", "u1106B", "u1106C", "u1106D", "u1106E", "u1106F">>,
       <<"u110F0", "u110F1", "u110F2", "u110F3", "u110F4", "u110F5", "u110F6", "u110F7", "u110F8", "u110F9">>,
       <<"u11136", "u11137", "u11138", "u11139", "u1113A", "u1113B", "u1113C", "u1113D", "u1113E", "u1113F">>,
       <<"u111D0", "u111D1", "u111D2", "u111D3", "u111D4", "u111D5", "u111D6", "u111D7", "u111D8", "u111D9">>,
       <<"u112F0", "u112F1", "u112F2", "u112F3", "u112F4", "u112F5", "u112F6", "u112F7", "u112F8", "u112F9">>,
       <<"u11450", "u11451", "u11452", "u11453", "u11454", "u11455", "u11456", "u11457", "u11458", "u11459">>,
       <<"u114D0", "u114D1", "u114D2", "u114D3", "u114D4", "u114D5", "u114D6", "u114D7", "u114D8", "u114D9">>,
       <<"u11650", "u11651", "u11652", "u11653", "u11654", "u11655", "u11656", "u11657", "u11658", "u11659">>,
       <<"u116C0", "u116C1", "u116C2", "u116C3", "u116C4", "u116C5", "u116C6", "u116C7", "u116C8", "u116C9">>,
       <<"u11730", "u11731", "u11732", "u11733", "u11734", "u11735", "u11736", "u11737", "u11738", "u11739">>,
       <<"u118E0", "u118E1", "u118E2", "u118E3", "u118E4", "u118E5", "u118E6", "u118E7", "u118E8", "u118E9">>,
       <<"u11950", "u11951", "u11952", "u11953", "u11954", "u11955", "u11956", "u11957", "u11958", "u11959">>,
       <<"u11C50", "u11C51", "u11C52", "u11C53", "u11C54", "u11C55", "u11C56", "u11C57", "u11C58", "u11C59">>,
       <<"u11D50", "u11D51", "u11D52", "u11D53", "u11D54", "u11D55", "u11D56", "u11D57", "u11D58", "u11D59">>,
       <<"u11DA0", "u11DA1", "u11DA2", "u11DA3", "u11DA4", "u11DA5", "u11DA6", "u11DA7", "u11DA8", "u11DA9">>,
       <<"u16A60", "u16A61", "u16A62", "u16A63", "u16A64", "u16A65", "u16A66", "u16A67", "u16A68", "u16A69">>,
       <<"u16AC0", "u16AC1", "u16AC2", "u16AC3", "u16AC4", "u16AC5", "u16AC6", "u16AC7", "u16AC8", "u16AC9">>,
       <<"u16B50", "u16B51", "u16B52", "u16B53", "u16B54", "u16B55", "u16B56", "u16B57", "u16B58", "u16B59">>,
       <<"u1D7CE", "u1D7CF", "u1D7D0", "u1D7D1", "u1D7D2", "u1D7D3", "u1D7D4", "u1D7D5", "u1D7D6", "u1D7D7">>,
       <<"u1D7D8", "u1D7D9", "u1D7DA", "u1D7DB", "u1D7DC", "u1D7DD", "u1D7DE", "u1D7DF", "u1D7E0", "u1D7E1">>,
       <<"u1D7E2", "u1D7E3", "u1D7E4", "u1D7E5", "u1D7E6", "u1D7E7", "u1D7E8", "u1D7E9", "u1D7EA", "u1D7EB">>,
       <<"u1D7EC", "u1D7ED", "u1D7EE", "u1D7EF", "u1D7F0", "u1D7F1", "u1D7F2", "u1D7F3", "u1D7F4", "u1D7F5">>,
       <<"u1D7F6", "u1D7F7", "u1D7F8", "u1D7F9", "u1D7FA", "u1D7FB", "u1D7FC", "u1D7FD", "u1D7FE", "u1D7FF">>,
       <<"u1E140", "u1E141", "u1E142", "u1E143", "u1E144", "u1E145", "u1E146", "u1E147", "u1E148", "u1E149">>,
       <<"u1E2F0", "u1E2F1", "u1E2F2", "u1E2F3", "u1E2F4", "u1E2F5", "u1E2F6", "u1E2F7", "u1E2F8", "u1E2F9">>,
       <<"u1E950", "u1E951", "u1E952", "u1E953", "u1E954", "u1E955", "u1E956", "u1E957", "u1E958", "u1E959">>,
       <<"u1FBF0", "u1FBF1", "u1FBF2", "u1FBF3", "u1FBF4", "u1FBF5", "u1FBF6", "u1FBF7", "u1FBF8", "u1FBF9">>
    >>

DigitChars == {DigitRows[r][i] : r \in 1..Len(DigitRows), i \in 1..10}

\* the value of a digit is its place in its row
DigitVal(c) ==
    (CHOOSE i \in 1..10 : \E r \in 1..Len(DigitRows) : DigitRows[r][i] = c) - 1

\* a byte that is no valid UTF-8 text
BadByte == "xFF"

RECURSIVE StrNat(_)
StrNat(n) == IF n < 10 THEN <<Digits[n + 1]>>
             ELSE StrNat(n \div 10) \o <<Digits[(n % 10) + 1]>>

Str(n) == IF n < 0 THEN <<"-">> \o StrNat(-n) ELSE StrNat(n)

RECURSIVE Pad(_, _)
Pad(s, w) == IF Len(s) >= w THEN s ELSE Pad(<<"0">> \o s, w)

\* str.zfill(width): zeros go after a leading sign
Zfill(s, w) ==
    IF Len(s) > 0 /\ s[1] \in {"-", "+"}
    THEN <<s[1]>> \o Pad(Tail(s), w - 1)
    ELSE Pad(s, w)

\* str.find(c): 0-based index of the first c, -1 when there is none
Find(s, c) ==
    IF \E i \in 1..Len(s) : s[i] = c
    THEN (CHOOSE i \in 1..Len(s) : s[i] = c /\ \A j \in 1..(i - 1) : s[j] # c) - 1
    ELSE -1

StartsWith(s, c) == Len(s) >= 1 /\ s[1] = c

Clamp(i, n) == IF i < 0 THEN (IF i + n < 0 THEN 0 ELSE i + n)
               ELSE (IF i > n THEN n ELSE i)

\* s[a:b] with Python's treatment of negative and oversized indices
PySlice(s, a, b) ==
    LET lo == Clamp(a, Len(s))
        hi == Clamp(b, Len(s))
    IN  IF hi <= lo THEN <<>> ELSE SubSeq(s, lo + 1, hi)

\* str.startswith(prefix)
StartsWithStr(s, p) == Len(s) >= Len(p) /\ SubSeq(s, 1, Len(p)) = p

\* bytes.decode('utf-8') succeeds
Decodable(data) == \A i \in 1..Len(data) : data[i] # BadByte

RECURSIVE DigitsValue(_)
DigitsValue(s) ==
    IF s = <<>> THEN 0
    ELSE IF s[Len(s)] = "_" THEN DigitsValue(SubSeq(s, 1, Len(s) - 1))
    ELSE 10 * DigitsValue(SubSeq(s, 1, Len(s) - 1)) + DigitVal(s[Len(s)])

\* the whitespace int() ignores around a number: space, tab, line feed,
\* carriage return, form feed, vertical tab ("x0B" stands for the one
\* character 0x0B, which has no escape here), and the whitespace outside
\* ASCII ("xA0" stands for U+00A0, "u2003" for U+2003, and so on)
Whitespace ==
    {" ", "\t", "\n", "\r", "\f", "x0B",
     "x85", "xA0", "u1680", "u2000", "u2001", "u2002", "u2003",
     "u2004", "u2005", "u2006", "u2007", "u2008", "u2009",
     "u200A", "u2028", "u2029", "u202F", "u205F", "u3000"}

RECURSIVE Strip(_)
Strip(s) ==
    IF s # <<>> /\ s[1] \in Whitespace THEN Strip(Tail(s))
    ELSE IF s # <<>> /\ s[Len(s)] \in Whitespace
    THEN Strip(SubSeq(s, 1, Len(s) - 1))
    ELSE s

\* int(text): optional sign, digits, single underscores between digits, and
\* no more than MaxStrDigits digits, leading zeros counted, underscores not
IntLiteral(b) ==
    /\ b # <<>>
    /\ b[1] \in DigitChars
    /\ b[Len(b)] \in DigitChars
    /\ \A i \in 1..Len(b) : b[i] \in DigitChars \cup {"_"}
    /\ \A i \in 1..(Len(b) - 1) : ~(b[i] = "_" /\ b[i + 1] = "_")
    /\ Cardinality({i \in 1..Len(b) : b[i] # "_"}) <= MaxStrDigits

\* the digits of a literal as str() writes the number: underscores dropped,
\* every digit in ASCII, no leading zeros
Canon(b) ==
    LET ds == SelectSeq(b, LAMBDA c : c # "_")
        as == [i \in 1..Len(ds) |-> Digits[DigitVal(ds[i]) + 1]]
        nz == {i \in 1..Len(as) : as[i] # "0"}
    IN  IF nz = {} THEN <<"0">>
        ELSE SubSeq(as, CHOOSE i \in nz : \A j \in nz : i <= j, Len(as))

ParseInt(s) ==
    LET t == Strip(s)
        signed == t # <<>> /\ t[1] \in {"-", "+"}
        body == IF signed THEN Tail(t) ELSE t
        sign == IF signed /\ t[1] = "-" THEN -1 ELSE 1
    IN  IF IntLiteral(body)
        THEN IF Len(Canon(body)) <= SmallDigits
             THEN Return(PyInt(sign * DigitsValue(Canon(body))))
             ELSE Return(PyBigInt(sign, Canon(body)))
        ELSE Raise("ValueError", "int", s)

(***************************************************************************)
(* Numeric encodings.  np.round rounds to nearest, ties to even.           *)
(***************************************************************************)
\* round(n / d) for d > 0, ties to even
RoundHalfEven(n, d) ==
    LET q == n \div d
        r == n % d
    IN  IF 2 * r > d \/ (2 * r = d /\ q % 2 = 1) THEN q + 1 ELSE q

\* _stay = int(np.round(stay * 10)), stay given in hundredths of a second
StayTenths(stay) == RoundHalfEven(stay, 10)

\* wl_int = int(np.round(wl)), wl given in hundredths of a nanometre
WlInt(wl) == RoundHalfEven(wl, 100)

\* truncation in place of rounding
RoundFifths_Truncate(d) ==
    LET a == IF d < 0 THEN -d ELSE d
    IN  IF d < 0 THEN -(a \div 20) ELSE a \div 20

\* np.round(x / 0.2) for x = d/100 computed in binary64, for wavelengths of
\* 1024 to 2048 nm: d/100 and 0.2 are not representable, and at a tie of the
\* exact quotient (d = 10, 30 mod 20) the computed quotient lies on the side
\* of zero; 2.5 is exact and rounds to 2
RoundFifths(d) ==
    LET a == IF d < 0 THEN -d ELSE d
        q == IF a % 20 > 10 THEN a \div 20 + 1 ELSE a \div 20
    IN  IF d < 0 THEN -q ELSE q

\* wl_fl = int(np.round((wl - wl_int) / 0.2))
WlFl(wl) == RoundFifths(wl - 100 * WlInt(wl))

\* wl_int + wl_fl * 0.2, in hundredths
Achievable(wl) == 100 * WlInt(wl) + 20 * WlFl(wl)

\* wl - (wl_int + wl_fl * 0.2) > 1e-6: the difference is a whole number of
\* hundredths, so it exceeds 1e-6 exactly when it is positive
PrecisionWarning(wl) == wl - Achievable(wl) > 0

\* the range checks without the one of span
ScanValidate_NoSpan(start, end, stayT, span) ==
    IF start < LoWl \/ start > HiWl THEN "start"
    ELSE IF end < LoWl \/ end > HiWl THEN "end"
    ELSE IF stayT < LoStay \/ stayT > HiStay THEN "stay"
    ELSE "ok"

\* the chained range checks of scan: the field of the first violated bound
ScanValidate(start, end, stayT, span) ==
    IF start < LoWl \/ start > HiWl THEN "start"
    ELSE IF end < LoWl \/ end > HiWl THEN "end"
    ELSE IF stayT < LoStay \/ stayT > HiStay THEN "stay"
    ELSE IF span < LoSpan \/ span > HiSpan THEN "span"
    ELSE "ok"

\* the range check of set_channel without its upper bound
ChannelValid_NoUpper(wl) == ~(WlInt(wl) < LoWl)

\* the range check of set_channel (line 146)
ChannelValid(wl) == ~(WlInt(wl) < LoWl \/ WlInt(wl) > HiWl)

(***************************************************************************)
(* The transport: what is logged, and read_until.                          *)
(***************************************************************************)
Evt(op, data) == [op |-> op, data |-> data]

\* no reset at all
Resets_None == <<>>

\* reset_input_buffer() then reset_output_buffer()
Resets == <<Evt("reset_input_buffer", <<>>), Evt("reset_output_buffer", <<>>)>>

\* the value written without padding
Frame_NoPad(letter, value) == <<letter>> \o Str(value) \o <<",">>

\* command letter, value zero-padded to width 4, terminator
Frame(letter, value) == <<letter>> \o Zfill(Str(value), FieldWidth) \o <<",">>

\* write_and_read without its two resets
SendOps_NoReset(letter, value) ==
    <<Evt("write", Frame(letter, value)), Evt("flush", <<>>)>>

\* the part of write_and_read before its blocking read
SendOps(letter, value) ==
    Resets \o <<Evt("write", Frame(letter, value)), Evt("flush", <<>>)>>

\* write + flush of the sweep trigger
TriggerOps(span) == <<Evt("write", Frame("S", span)), Evt("flush", <<>>)>>

\* read_until(eol): through the first eol, or everything on timeout
ReadUntil(buf, eol) ==
    IF Find(buf, eol) >= 0 THEN SubSeq(buf, 1, Find(buf, eol) + 1) ELSE buf

Rest(buf, eol) ==
    IF Find(buf, eol) >= 0 THEN SubSeq(buf, Find(buf, eol) + 2, Len(buf)) ELSE <<>>

(***************************************************************************)
(* write_and_read after its read: decode, check the echo, cast the payload.*)
(***************************************************************************)
CastInt(s) == ParseInt(s)

\* cast_func(text); calling None raises TypeError
ApplyCast(cast_func, s) ==
    IF cast_func = "int" THEN CastInt(s)
    ELSE Raise("TypeError", "call", s)

Payload(data, startsWith, eol_r) ==
    PySlice(data, Find(data, startsWith) + 1, Find(data, eol_r))

WriteAndRead(data, startsWith, eol_r, cast_func) ==
    IF ~Decodable(data) THEN Raise("UnicodeDecodeError", "", data)
    ELSE IF ~StartsWith(data, startsWith) THEN Raise("AssertionError", "", data)
    ELSE IF Find(data, startsWith) + 1 = Find(data, eol_r) THEN Return(PyNone)
    ELSE ApplyCast(cast_func, Payload(data, startsWith, eol_r))

\* the least int n for which n / 10 is too large for a float:
\* 10 * (2^1024 - 2^970), the quotient that rounds up to 2^1024
FloatOverflowAt ==
    <<
      "1", "7", "9", "7", "6", "9", "3", "1", "3", "4", "8", "6", "2",
      "3", "1", "5", "8", "0", "7", "9", "3", "7", "2", "8", "9", "7",
      "1", "4", "0", "5", "3", "0", "3", "4", "1", "5", "0", "7", "9",
      "9", "3", "4", "1", "3", "2", "7", "1", "0", "0", "3", "7", "8",
      "2", "6", "9", "3", "6", "1", "7", "3", "7", "7", "8", "9", "8",
      "0", "4", "4", "4", "9", "6", "8", "2", "9", "2", "7", "6", "4",
      "7", "5", "0", "9", "4", "6", "6", "4", "9", "0", "1", "7", "9",
      "7", "7", "5", "8", "7", "2", "0", "7", "0", "9", "6", "3", "3",
      "0", "2", "8", "6", "4", "1", "6", "6", "9", "2", "8", "8", "7",
      "9", "1", "0", "9", "4", "6", "5", "5", "5", "5", "4", "7", "8",
      "5", "1", "9", "4", "0", "4", "0", "2", "6", "3", "0", "6", "5",
      "7", "4", "8", "8", "6", "7", "1", "5", "0", "5", "8", "2", "0",
      "6", "8", "1", "9", "0", "8", "9", "0", "2", "0", "0", "0", "7",
      "0", "8", "3", "8", "3", "6", "7", "6", "2", "7", "3", "8", "5",
      "4", "8", "4", "5", "8", "1", "7", "7", "1", "1", "5", "3", "1",
      "7", "6", "4", "4", "7", "5", "7", "3", "0", "2", "7", "0", "0",
      "6", "9", "8", "5", "5", "5", "7", "1", "3", "6", "6", "9", "5",
      "9", "6", "2", "2", "8", "4", "2", "9", "1", "4", "8", "1", "9",
      "8", "6", "0", "8", "3", "4", "9", "3", "6", "4", "7", "5", "2",
      "9", "2", "7", "1", "9", "0", "7", "4", "1", "6", "8", "4", "4",
      "4", "3", "6", "5", "5", "1", "0", "7", "0", "4", "3", "4", "2",
      "7", "1", "1", "5", "5", "9", "6", "9", "9", "5", "0", "8", "0",
      "9", "3", "0", "4", "2", "8", "8", "0", "1", "7", "7", "9", "0",
      "4", "1", "7", "4", "4", "9", "7", "7", "9", "2", "0"
    >>

\* digits, with no leading zeros, of a number that is FloatOverflowAt or more
TooLargeForFloat(digits) ==
    \/ Len(digits) > Len(FloatOverflowAt)
    \/ /\ Len(digits) = Len(FloatOverflowAt)
       /\ ~\E i \in 1..Len(digits) :
             /\ DigitVal(digits[i]) < DigitVal(FloatOverflowAt[i])
             /\ \A j \in 1..(i - 1) : digits[j] = FloatOverflowAt[j]

\* value / 10; None / 10 raises TypeError, and an int whose tenth is too
\* large for a float raises OverflowError
DivTen(v) ==
    CASE v.t = "int" -> Return(PyTenths(v.v))
      [] v.t = "bigint" ->
           IF TooLargeForFloat(v.big) THEN Raise("OverflowError", "div", <<>>)
           ELSE Return(PyBigTenths(v.v, v.big))
      [] OTHER -> Raise("TypeError", "div", <<>>)

(***************************************************************************)
(* Inputs of the calls and what the device may send during a read.         *)
(***************************************************************************)
NoArgs == [op |-> "none", start |-> 0, end |-> 0, stay |-> 0, span |-> 0,
           wl |-> 0, suppress |-> FALSE, ports |-> 0, timeout |-> 0]
ScanArgs(start, end, stay, span, sup) ==
    [op |-> "scan", start |-> start, end |-> end, stay |-> stay, span |-> span,
     wl |-> 0, suppress |-> sup, ports |-> 0, timeout |-> 0]
ChannelArgs(wl, sup) ==
    [op |-> "set_channel", start |-> 0, end |-> 0, stay |-> 0, span |-> 0,
     wl |-> wl, suppress |-> sup, ports |-> 0, timeout |-> 0]
\* connect: the number of ports comports() lists, the timeout in tenths of a
\* second
ConnectArgs(n, timeout, sup) ==
    [op |-> "connect", start |-> 0, end |-> 0, stay |-> 0, span |-> 0,
     wl |-> 0, suppress |-> sup, ports |-> n, timeout |-> timeout]

NoPrev == [start |-> PyNone, end |-> PyNone, stay |-> PyNone]

\* <<start, end, stay (hundredths of a second), span>>: one valid set, each
\* field moved to its bounds and past them, and sets with several violations
ScanInputs ==
    {<<LoWl, HiWl, 6, LoSpan>>}
    \cup {<<s, HiWl, 6, LoSpan>> : s \in {LoWl - 1, HiWl, HiWl + 1}}
    \cup {<<LoWl, e, 6, LoSpan>> : e \in {LoWl - 1, LoWl, HiWl + 1}}
    \cup {<<LoWl, HiWl, t, LoSpan>> : t \in {0, 5, 3005, 3006}}
    \cup {<<LoWl, HiWl, 6, n>> : n \in {LoSpan - 1, HiSpan, HiSpan + 1}}
    \cup {<<LoWl - 1, HiWl + 1, 5, 0>>, <<LoWl, HiWl + 1, 3006, HiSpan + 1>>,
          <<LoWl, HiWl, 3006, 0>>}

\* wavelengths in hundredths of a nanometre: every hundredth of two
\* nanometres around 1550, and the two ends of the range
WlInputs ==
    (154950 .. 155150)
    \cup {100 * LoWl - 51, 100 * LoWl - 50, 100 * HiWl + 49, 100 * HiWl + 50, 160000}

\* frames that echo the letter of the request: no payload, a number, a number
\* cut by the timeout before its delimiter, a payload that is no number, a
\* payload that is no UTF-8
Echo(letter) ==
    {<<letter, " ">>, <<letter, "1", "5", " ">>, <<letter, "1", "5">>,
     <<letter, "o", "K", " ">>, <<letter, BadByte, " ">>}

\* a number of one digit more than int() converts
LongNumber == [i \in 1..(MaxStrDigits + 1) |-> "1"]

\* a number of one digit more than FloatOverflowAt
HugeNumber == [i \in 1..(Len(FloatOverflowAt) + 1) |-> "1"]

\* echoed frames that matter to int() and to the division of line 99 only: a
\* number in Arabic-Indic and ASCII digits ended by a carriage return and a
\* no-break space, a number too long for int(), and in the T exchange a
\* number of ten digits and a number whose tenth is too large for a float
Numerals(letter) ==
    {<<letter, "u0661", "5", "\r", "xA0", " ">>,
     <<letter>> \o LongNumber \o <<" ">>}
    \cup (IF letter = "T"
          THEN {<<"T", "1", "2", "3", "4", "5", "6", "7", "8", "9", "0", " ">>,
                <<"T">> \o HugeNumber \o <<" ">>}
          ELSE {})

\* nothing (timeout), other frames, a frame followed by further bytes
Other ==
    {<<>>, <<"X", "1", "2", "3", "4", ",">>, <<"E", "1", " ">>, <<"o", "K", " ">>,
     <<"o", "K", " ", "S", "1", " ">>, <<"S", "1", "5", " ", "o", "K", " ">>,
     <<BadByte, " ">>}

\* what the device may send during the read of an exchange or of the sweep;
\* the payload goes through int() in the L, H and T exchanges only
Bursts(letter) ==
    Echo(letter) \cup Other
    \cup (IF letter \in {"L", "H", "T"} THEN Numerals(letter) ELSE {})

\* what a port may answer to the identity query: the device class with and
\* without further text, cut by the timeout, followed by further bytes,
\* another class, nothing, bytes that are no UTF-8
IdentityBursts ==
    {<<"V", "2", " ">>, <<"V", "2", ".", "1", " ">>, <<"V", "2">>,
     <<"V", "2", " ", "S", "1", " ">>, <<"V", "1", " ">>, <<"E", "1", " ">>,
     <<>>, <<BadByte, " ">>}

\* timeouts a caller of connect passes, in tenths of a second
ConnectTimeouts == {10, 50}

\* the letter of the last frame written
LastLetter(l) ==
    LET ws == {i \in 1..Len(l) : l[i].op = "write"}
        last == CHOOSE i \in ws : \A j \in ws : j <= i
    IN  l[last].data[1]

(***************************************************************************)
(* The state machine.                                                      *)
(***************************************************************************)
Init ==
    /\ pc = "idle"
    /\ args = NoArgs
    /\ log = <<>>
    /\ inbuf = <<>>
    /\ prev = NoPrev
    /\ outcome = NoOutcome
    /\ progress = <<>>
    /\ warned = FALSE
    /\ nreads = 0

\* scan up to the blocking read of its first exchange (lines 85-97)
CallScan(start, end, stay, span, sup) ==
    LET v == ScanValidate(start, end, StayTenths(stay), span)
    IN  /\ pc = "idle"
        /\ args' = ScanArgs(start, end, stay, span, sup)
        /\ inbuf' = <<>>
        /\ IF v = "ok"
           THEN /\ log' = Resets \o SendOps("L", start)
                /\ pc' = "rdL"
                /\ outcome' = NoOutcome
           ELSE /\ log' = Resets
                /\ pc' = "done"
                /\ outcome' = Raise("ValueError", v, <<>>)
        /\ UNCHANGED <<prev, progress, warned, nreads>>

\* the H exchange left out
NextExchange_SkipH(letter) == "T"

\* the exchange that follows the L and the H exchange (lines 97-99)
NextExchange(letter) == IF letter = "L" THEN "H" ELSE "T"

\* the reads of the L and H exchanges and the write of the next one (97-99)
ScanConfigRead ==
    /\ pc \in {"rdL", "rdH"}
    /\ \E burst \in Bursts(LastLetter(log)) :
         LET cur == LastLetter(log)
             nxt == NextExchange(cur)
             buf == inbuf \o burst
             data == ReadUntil(buf, " ")
             r == WriteAndRead(data, cur, " ", "int")
             log1 == Append(log, Evt("read_until", data))
         IN  IF r.kind = "raise"
             THEN /\ pc' = "done"
                  /\ outcome' = r
                  /\ log' = log1
                  /\ inbuf' = Rest(buf, " ")
                  /\ UNCHANGED prev
             ELSE /\ outcome' = NoOutcome
                  /\ inbuf' = <<>>
                  /\ prev' = IF cur = "L" THEN [prev EXCEPT !.start = r.val]
                             ELSE [prev EXCEPT !.end = r.val]
                  /\ log' = log1 \o (IF nxt = "H" THEN SendOps("H", args.end)
                                     ELSE SendOps("T", StayTenths(args.stay)))
                  /\ pc' = IF nxt = "H" THEN "rdH" ELSE "rdT"
    /\ UNCHANGED <<args, progress, warned, nreads>>

\* the read of the T exchange, the division, and the sweep trigger (99-104)
ScanStayRead ==
    /\ pc = "rdT"
    /\ \E burst \in Bursts(LastLetter(log)) :
         LET buf == inbuf \o burst
             data == ReadUntil(buf, " ")
             r == WriteAndRead(data, "T", " ", "int")
             q == IF r.kind = "raise" THEN r ELSE DivTen(r.val)
             log1 == Append(log, Evt("read_until", data))
         IN  /\ inbuf' = Rest(buf, " ")
             /\ IF q.kind = "raise"
                THEN /\ pc' = "done"
                     /\ outcome' = q
                     /\ log' = log1
                     /\ UNCHANGED prev
                ELSE /\ pc' = "sweep"
                     /\ outcome' = NoOutcome
                     /\ prev' = [prev EXCEPT !.stay = q.val]
                     /\ log' = log1 \o TriggerOps(args.span)
    /\ UNCHANGED <<args, progress, warned, nreads>>

\* what the sweep loop does with one read (lines 106-114)
SweepFrame(data) ==
    IF data = <<>> THEN "retry"
    ELSE IF ~Decodable(data) THEN "undecodable"
    ELSE IF StartsWith(data, "S") THEN "telemetry"
    ELSE IF StartsWith(data, "o") THEN "completed"
    ELSE "violation"

\* line 111: a heartbeat or suppressed output prints nothing
SweepPrints(data, sup) ==
    ~(Find(data, "S") + 1 = Find(data, " ") \/ sup)

\* one read of the sweep loop and what follows it (lines 105-116)
SweepRead ==
    /\ pc = "sweep"
    /\ nreads < MaxSweepReads
    /\ \E burst \in Bursts("S") :
         LET buf == inbuf \o burst
             data == ReadUntil(buf, " ")
             f == SweepFrame(data)
         IN  /\ inbuf' = Rest(buf, " ")
             /\ log' = Append(log, Evt("read_until", data))
             /\ nreads' = nreads + 1
             /\ progress' = IF f = "telemetry" /\ SweepPrints(data, args.suppress)
                            THEN Append(progress, Payload(data, "S", " "))
                            ELSE progress
             /\ pc' = IF f \in {"retry", "telemetry"} THEN "sweep" ELSE "done"
             /\ outcome' =
                  CASE f = "undecodable" -> Raise("UnicodeDecodeError", "", data)
                    [] f = "violation" -> Raise("AssertionError", "", data)
                    [] f = "completed" -> Return(<<prev.start, prev.end, prev.stay>>)
                    [] OTHER -> NoOutcome
    /\ UNCHANGED <<args, prev, warned>>

\* set_channel up to the blocking read of the C exchange (lines 142-148)
CallSetChannel(wl, sup) ==
    /\ pc = "idle"
    /\ args' = ChannelArgs(wl, sup)
    /\ inbuf' = <<>>
    /\ IF ChannelValid(wl)
       THEN /\ log' = Resets \o SendOps("C", WlInt(wl))
            /\ pc' = "rdC"
            /\ outcome' = NoOutcome
       ELSE /\ log' = Resets
            /\ pc' = "done"
            /\ outcome' = Raise("ValueError", "wl", <<>>)
    /\ UNCHANGED <<prev, progress, warned, nreads>>

\* decrement sent for a positive fine step, increment for a negative one
FineLetter_Swapped(fl) == IF fl < 0 THEN "I" ELSE "D"

\* lines 153-156: D for a negative fine step, I for a positive one
FineLetter(fl) == IF fl < 0 THEN "D" ELSE "I"

\* the read of the C exchange, the warning, and the write of D or I (148-156)
ChannelCoarseRead ==
    /\ pc = "rdC"
    /\ \E burst \in Bursts("C") :
         LET buf == inbuf \o burst
             data == ReadUntil(buf, " ")
             r == WriteAndRead(data, "C", " ", "None")
             log1 == Append(log, Evt("read_until", data))
             fl == WlFl(args.wl)
         IN  IF r.kind = "raise"
             THEN /\ pc' = "done"
                  /\ outcome' = r
                  /\ log' = log1
                  /\ inbuf' = Rest(buf, " ")
                  /\ UNCHANGED warned
             ELSE /\ warned' = (~args.suppress /\ PrecisionWarning(args.wl))
                  /\ IF fl = 0
                     THEN /\ pc' = "done"
                          /\ outcome' = Return(PyInt(0))
                          /\ log' = log1
                          /\ inbuf' = Rest(buf, " ")
                     ELSE /\ pc' = IF FineLetter(fl) = "D" THEN "rdD" ELSE "rdI"
                          /\ outcome' = NoOutcome
                          /\ log' = log1 \o SendOps(FineLetter(fl),
                                                    IF fl < 0 THEN -fl ELSE fl)
                          /\ inbuf' = <<>>
    /\ UNCHANGED <<args, prev, progress, nreads>>

\* the read of the D or I exchange; the function then falls off its end
ChannelFineRead ==
    /\ pc \in {"rdD", "rdI"}
    /\ \E burst \in Bursts(LastLetter(log)) :
         LET buf == inbuf \o burst
             data == ReadUntil(buf, " ")
             r == WriteAndRead(data, LastLetter(log), " ", "None")
         IN  /\ pc' = "done"
             /\ outcome' = IF r.kind = "raise" THEN r ELSE Return(PyNone)
             /\ log' = Append(log, Evt("read_until", data))
             /\ inbuf' = Rest(buf, " ")
    /\ UNCHANGED <<args, prev, progress, warned, nreads>>

\* port.device of the n-th port
DeviceName(n) == <<"C", "O", "M">> \o Str(n)

\* the lines connect prints
ScanningLine(n) ==
    <<"S", "c", "a", "n", "n", "i", "n", "g", " ", "o", "n", " ">>
    \o DeviceName(n) \o <<".", ".", ".">>

NotFoundLine ==
    <<"N", "o", " ", "o", "p", "t", "i", "c", "a", "l", " ", "f", "i", "l", "t",
      "e", "r", " ", "f", "o", "u", "n", "d", ".">>

\* opening the n-th port and sending the identity query (lines 44-48)
ProbeOps(n) ==
    <<Evt("open", DeviceName(n))>> \o Resets
    \o <<Evt("write", <<"V", ",">>), Evt("flush", <<>>)>>

\* the ports opened so far; the last one is the one ser names
Opened(l) == SelectSeq(l, LAMBDA e : e.op = "open")

\* line 50: the response names the device class
IsFilter(data) == StartsWithStr(data, <<"V", "2">>)

\* connect up to the blocking read on its first port (lines 40-49)
CallConnect(n, timeout, sup) ==
    /\ pc = "idle"
    /\ args' = ConnectArgs(n, timeout, sup)
    /\ inbuf' = <<>>
    /\ IF n >= 1
       THEN /\ log' = ProbeOps(1)
            /\ pc' = "rdV"
            /\ outcome' = NoOutcome
            /\ progress' = IF sup THEN <<>> ELSE <<ScanningLine(1)>>
       ELSE /\ log' = <<>>
            /\ pc' = "done"
            /\ outcome' = Return(PyNone)
            /\ progress' = <<NotFoundLine>>
    /\ UNCHANGED <<prev, warned, nreads>>

\* the read of the identity response on the current port and what follows:
\* the return of the handle, or the close and the next port (lines 49-54)
ConnectRead ==
    /\ pc = "rdV"
    /\ \E burst \in IdentityBursts :
         LET cur == Len(Opened(log))
             buf == inbuf \o burst
             data == ReadUntil(buf, " ")
             log1 == Append(log, Evt("read_until", data))
         IN  IF ~Decodable(data)
             THEN /\ pc' = "done"
                  /\ outcome' = Raise("UnicodeDecodeError", "", data)
                  /\ log' = log1
                  /\ inbuf' = Rest(buf, " ")
                  /\ UNCHANGED progress
             ELSE IF IsFilter(data)
             THEN /\ pc' = "done"
                  /\ outcome' = Return(PySerial(cur))
                  /\ log' = Append(log1, Evt("timeout", Str(args.timeout)))
                  /\ inbuf' = Rest(buf, " ")
                  /\ UNCHANGED progress
             ELSE IF cur < args.ports
             THEN /\ pc' = "rdV"
                  /\ outcome' = NoOutcome
                  /\ log' = Append(log1, Evt("close", <<>>)) \o ProbeOps(cur + 1)
                  /\ inbuf' = <<>>
                  /\ progress' = IF args.suppress THEN progress
                                 ELSE Append(progress, ScanningLine(cur + 1))
             ELSE /\ pc' = "done"
                  /\ outcome' = Return(PyNone)
                  /\ log' = Append(log1, Evt("close", <<>>))
                  /\ inbuf' = <<>>
                  /\ progress' = Append(progress, NotFoundLine)
    /\ UNCHANGED <<args, prev, warned, nreads>>

\* the caller takes the result; the handle, with its input buffer, lives on
Finish ==
    /\ pc = "done"
    /\ pc' = "idle"
    /\ args' = NoArgs
    /\ log' = <<>>
    /\ prev' = NoPrev
    /\ outcome' = NoOutcome
    /\ progress' = <<>>
    /\ warned' = FALSE
    /\ nreads' = 0
    /\ UNCHANGED inbuf

Next ==
    \/ \E a \in ScanInputs, sup \in BOOLEAN : CallScan(a[1], a[2], a[3], a[4], sup)
    \/ ScanConfigRead
    \/ ScanStayRead
    \/ SweepRead
    \/ \E wl \in WlInputs, sup \in BOOLEAN : CallSetChannel(wl, sup)
    \/ ChannelCoarseRead
    \/ ChannelFineRead
    \/ \E n \in 0..MaxPorts, t \in ConnectTimeouts, sup \in BOOLEAN :
         CallConnect(n, t, sup)
    \/ ConnectRead
    \/ Finish

Spec == Init /\ [][Next]_vars

(***************************************************************************)
(* Properties.  Helpers over the log of the call in progress.              *)
(***************************************************************************)
IsIO(e) == e.op \in {"write", "read_until"}

\* the writes and reads of the call, in order
IO == SelectSeq(log, IsIO)

Tag(e) == IF e.op = "write" THEN e.data[1] ELSE "r"

NoWrite == \A i \in 1..Len(log) : log[i].op # "write"

Abs(x) == IF x < 0 THEN -x ELSE x

\* the call ended right after the read of an exchange of write_and_read
EndedAtExchangeRead ==
    /\ pc = "done"
    /\ Len(log) >= 1
    /\ log[Len(log)].op = "read_until"
    /\ LastLetter(log) \in {"L", "H", "T", "C", "D", "I"}

LastRead == log[Len(log)].data

\* the number held by the four digits of a request frame
FrameValue(frame) == DigitsValue(SubSeq(frame, 2, 5))

\* letter, digits, delimiter
DigitEcho(data, letter) ==
    /\ Len(data) >= 3
    /\ data[1] = letter
    /\ data[Len(data)] = " "
    /\ \A i \in 2..(Len(data) - 1) : data[i] \in DigitChars

\* a well-formed echoed frame: letter, a numeric field of at most FieldWidth
\* digits, delimiter
NumericEcho(data, letter) ==
    DigitEcho(data, letter) /\ Len(data) - 2 <= FieldWidth

ScanInRange ==
    /\ args.start >= 1510 /\ args.start <= 1589
    /\ args.end >= 1510 /\ args.end <= 1589
    /\ StayTenths(args.stay) >= 1 /\ StayTenths(args.stay) <= 300
    /\ args.span >= 1 /\ args.span <= 30

CoarseInRange == WlInt(args.wl) >= 1510 /\ WlInt(args.wl) <= 1589

\* C1: in a scan, the writes and reads on the transport are L, read, H, read,
\* T, read, S and then only reads, the three frames carrying start, end and
\* the stay in tenths; S is written only for parameters in range, and it is
\* written once the three responses were well-formed echoed frames; an
\* echoed number too long for int() ends the scan at that read, and so does,
\* in the T exchange, a number whose tenth is too large for a float: no later
\* frame is written.
C1_ConfigBeforeTrigger ==
    args.op = "scan" =>
      LET ideal == <<"L", "r", "H", "r", "T", "r", "S">>
      IN  /\ \A i \in 1..Len(IO) :
                Tag(IO[i]) = (IF i <= 7 THEN ideal[i] ELSE "r")
          /\ Len(IO) >= 1 => IO[1].data = Frame("L", args.start)
          /\ Len(IO) >= 3 => IO[3].data = Frame("H", args.end)
          /\ Len(IO) >= 5 => IO[5].data = Frame("T", StayTenths(args.stay))
          /\ Len(IO) >= 7 => IO[7].data = Frame("S", args.span) /\ ScanInRange
          /\ ( /\ Len(IO) >= 6
               /\ NumericEcho(IO[2].data, "L")
               /\ NumericEcho(IO[4].data, "H")
               /\ NumericEcho(IO[6].data, "T") ) => Len(IO) >= 7
          /\ \A i \in {2, 4, 6} :
               ( /\ Len(IO) >= i
                 /\ DigitEcho(IO[i].data, IO[i - 1].data[1])
                 /\ Len(IO[i].data) - 2 > MaxStrDigits ) =>
                   /\ Len(IO) = i
                   /\ pc = "done"
                   /\ outcome.exc = "ValueError"
          /\ ( /\ Len(IO) >= 6
               /\ DigitEcho(IO[6].data, "T")
               /\ Len(IO[6].data) - 2 <= MaxStrDigits
               /\ IO[6].data[2] # "0"
               /\ Len(IO[6].data) - 2 > Len(FloatOverflowAt) ) =>
                 /\ Len(IO) = 6
                 /\ pc = "done"
                 /\ outcome.exc = "OverflowError"

C1_Witness ==
    /\ args.op = "scan"
    /\ pc = "sweep"
    /\ Len(IO) = 7
    /\ NumericEcho(IO[6].data, "T")

\* C2: a scan with a parameter out of bounds has ended with a ValueError whose
\* field is one that violates its bound, and has written nothing.
C2_RangeErrorNoWrite ==
    (args.op = "scan" /\ ~ScanInRange) =>
      /\ NoWrite
      /\ pc = "done"
      /\ outcome.kind = "raise"
      /\ outcome.exc = "ValueError"
      /\ CASE outcome.field = "start" -> args.start < 1510 \/ args.start > 1589
           [] outcome.field = "end" -> args.end < 1510 \/ args.end > 1589
           [] outcome.field = "stay" ->
                StayTenths(args.stay) < 1 \/ StayTenths(args.stay) > 300
           [] outcome.field = "span" -> args.span < 1 \/ args.span > 30
           [] OTHER -> FALSE

C2_Witness ==
    /\ args.op = "scan"
    /\ pc = "done"
    /\ args.span = 31
    /\ outcome.field = "span"
    /\ NoWrite

\* C3 as stated: a sweep read that is not empty and does not start with S is
\* the last operation of the scan; if it starts with o the scan returns the
\* values decoded from the L, H and T responses, the last one as tenths, and
\* otherwise it raises AssertionError with that frame.
C3_SweepEnds ==
    args.op = "scan" =>
      \A i \in 1..Len(log) :
        ( /\ log[i].op = "read_until"
          /\ \E j \in 1..(i - 1) : log[j].op = "write" /\ log[j].data[1] = "S"
          /\ log[i].data # <<>>
          /\ ~StartsWith(log[i].data, "S") ) =>
            /\ i = Len(log)
            /\ pc = "done"
            /\ IF StartsWith(log[i].data, "o")
               THEN outcome = Return(
                      <<WriteAndRead(IO[2].data, "L", " ", "int").val,
                        WriteAndRead(IO[4].data, "H", " ", "int").val,
                        DivTen(WriteAndRead(IO[6].data, "T", " ", "int").val).val>>)
               ELSE outcome = Raise("AssertionError", "", log[i].data)

\* C4 as stated: out of range, set_channel returns -1 and writes nothing.
C4_ReturnsMinusOne ==
    (args.op = "set_channel" /\ pc = "done" /\ ~CoarseInRange) =>
      /\ outcome = Return(PyInt(-1))
      /\ NoWrite

\* C4, amended: when the rounded wavelength is outside [1510,1589],
\* set_channel raises ValueError to its caller and writes nothing.
C4_RangeErrorNoWrite ==
    (args.op = "set_channel" /\ ~CoarseInRange) =>
      /\ pc = "done"
      /\ outcome = Raise("ValueError", "wl", <<>>)
      /\ NoWrite

C4_Witness ==
    /\ args.op = "set_channel"
    /\ args.wl = 160000
    /\ pc = "done"
    /\ outcome.exc = "ValueError"
    /\ NoWrite

\* an exchange of set_channel failed: its response does not start with the
\* letter of the request
ChannelExchangeFailed ==
    /\ args.op = "set_channel"
    /\ EndedAtExchangeRead
    /\ ~StartsWith(LastRead, LastLetter(log))

\* C5 as stated: a failed exchange of set_channel gives the result -1 and no
\* exception.
C5_FailureReturnsMinusOne ==
    ChannelExchangeFailed => outcome = Return(PyInt(-1))

\* every response of the call is the echoed letter followed by the delimiter
AllAcknowledged ==
    \A i \in 1..Len(IO) :
      IO[i].op = "read_until" => i > 1 /\ IO[i].data = <<IO[i - 1].data[1], " ">>

\* C6 as stated: in range and with every exchange acknowledged, set_channel
\* returns 0, with and without a D or I exchange.
C6_ReturnsZero ==
    (args.op = "set_channel" /\ pc = "done" /\ CoarseInRange /\ AllAcknowledged) =>
      outcome = Return(PyInt(0))

\* the wavelength commanded by the frames written, in hundredths
Commanded ==
    LET w == SelectSeq(IO, LAMBDA e : e.op = "write")
        fine == IF Len(w) < 2 THEN 0
                ELSE IF w[2].data[1] = "I" THEN FrameValue(w[2].data)
                ELSE -FrameValue(w[2].data)
    IN  100 * FrameValue(w[1].data) + 20 * fine

\* C7: for a wavelength whose rounded value is in range, coarse is within
\* 0.5 nm of it, coarse + 0.2 * fine is within 0.1 nm of it and no other
\* multiple of 0.2 nm is closer; 1550, 1550.2 and 1549.8 give (1550, 0),
\* (1550, 1) and (1550, -1); and a call that returns has commanded that
\* wavelength.
C7_ClosestStep ==
    (args.op = "set_channel" /\ CoarseInRange) =>
      LET c == WlInt(args.wl)
          f == WlFl(args.wl)
      IN  /\ Abs(args.wl - 100 * c) <= 50
          /\ Abs(args.wl - (100 * c + 20 * f)) <= 10
          /\ \A k \in -5..5 :
               Abs(args.wl - (100 * c + 20 * f)) <= Abs(args.wl - (100 * c + 20 * k))
          /\ args.wl = 155000 => c = 1550 /\ f = 0
          /\ args.wl = 155020 => c = 1550 /\ f = 1
          /\ args.wl = 154980 => c = 1550 /\ f = -1
          /\ (pc = "done" /\ outcome.kind = "return") =>
               Commanded = 100 * c + 20 * f

C7_Witness ==
    /\ args.op = "set_channel"
    /\ args.wl = 155037
    /\ pc = "done"
    /\ outcome.kind = "return"
    /\ Commanded = 155040

\* C8 as stated: with output not suppressed and the C exchange acknowledged,
\* the warning is given exactly when the achievable wavelength differs from
\* the requested one, above or below.
C8_WarnsBothWays ==
    ( /\ args.op = "set_channel"
      /\ ~args.suppress
      /\ Len(IO) >= 2
      /\ IO[2].data = <<"C", " ">>
      /\ pc = "done" ) =>
        (warned <=> Achievable(args.wl) # args.wl)

\* C9 as stated: when the response of an exchange does not start with the
\* letter of the request, the empty response included, the call ends with
\* AssertionError carrying that response, and not with a result of the
\* decoder.
C9_MismatchRaises ==
    (EndedAtExchangeRead /\ ~StartsWith(LastRead, LastLetter(log))) =>
      /\ outcome.kind = "raise"
      /\ outcome.exc = "AssertionError"
      /\ outcome.raw = LastRead

\* the characters after the echoed letter up to the first delimiter, or up to
\* the end of a response that the timeout cut before any delimiter
PayloadText(data) ==
    IF Find(data, " ") >= 0 THEN SubSeq(data, 2, Find(data, " "))
    ELSE SubSeq(data, 2, Len(data))

\* C10 as stated, for the L exchange of scan: when the response is text that
\* starts with L, a delimiter right after the letter gives "no value" and the
\* scan goes on; otherwise int is applied to exactly the payload, and the
\* scan goes on with its value or ends with its error.
C10_DecodesPayload ==
    ( /\ args.op = "scan"
      /\ Len(IO) >= 2
      /\ Decodable(IO[2].data)
      /\ StartsWith(IO[2].data, "L") ) =>
        IF Len(IO[2].data) >= 2 /\ IO[2].data[2] = " "
        THEN Len(IO) >= 3 /\ prev.start = PyNone
        ELSE LET r == ParseInt(PayloadText(IO[2].data))
             IN  IF r.kind = "return"
                 THEN Len(IO) >= 3 /\ prev.start = r.val
                 ELSE Len(IO) = 2 /\ pc = "done" /\ outcome = r

\* the identity responses read by connect, one per port probed
Responses == SelectSeq(log, LAMBDA e : e.op = "read_until")

\* the handle's timeout: the probe's until connect sets the caller's
HandleTimeout ==
    IF \E i \in 1..Len(log) : log[i].op = "timeout"
    THEN log[CHOOSE i \in 1..Len(log) : log[i].op = "timeout"].data
    ELSE Str(ProbeTimeout)

\* the ports open now: opened, and not closed before the next open or the end
OpenPorts ==
    {k \in 1..Len(Opened(log)) :
       \E i \in 1..Len(log) :
         /\ log[i] = Evt("open", DeviceName(k))
         /\ \A j \in (i + 1)..Len(log) :
              log[j].op = "close" => \E m \in (i + 1)..(j - 1) : log[m].op = "open"}

\* C11 as stated: ports are opened in enumeration order, one response each;
\* connect ends by returning the handle of the first port whose response
\* starts with V2, with the caller's timeout set and nothing opened or
\* written after that response, or, when no response starts with V2, by
\* returning the empty result after probing every port; it never raises.
C11_FirstMatchWins ==
    args.op = "connect" =>
      /\ \A k \in 1..Len(Opened(log)) : Opened(log)[k].data = DeviceName(k)
      /\ \A k \in 1..(Len(Responses) - 1) : ~IsFilter(Responses[k].data)
      /\ pc = "done" =>
           /\ outcome.kind = "return"
           /\ IF Len(Responses) >= 1 /\ IsFilter(Responses[Len(Responses)].data)
              THEN /\ outcome.val = PySerial(Len(Responses))
                   /\ HandleTimeout = Str(args.timeout)
                   /\ log[Len(log)].op = "timeout"
                   /\ log[Len(log) - 1].op = "read_until"
              ELSE /\ outcome.val = PyNone
                   /\ Len(Responses) = args.ports

\* C12 as stated: a port whose response is no UTF-8 is a port that does not
\* match; it is closed, the next port is probed, and connect does not end
\* by raising.
C12_BadBytesNoMatch ==
    args.op = "connect" =>
      \A k \in 1..Len(Responses) :
        ~Decodable(Responses[k].data) =>
          /\ k \notin OpenPorts
          /\ k < args.ports => Len(Opened(log)) > k
          /\ pc = "done" => outcome.kind = "return"

\* C13 as stated: a scan that ends returns its triple or fails with a
\* ValueError (range, or a payload int() cannot parse; UnicodeDecodeError is
\* a ValueError) or an AssertionError, and with no other kind of failure,
\* also when L, H or T is echoed with no payload.
C13_EndsInTaxonomy ==
    (args.op = "scan" /\ pc = "done") =>
      \/ outcome = Return(<<prev.start, prev.end, prev.stay>>)
      \/ /\ outcome.kind = "raise"
         /\ outcome.exc \in {"ValueError", "AssertionError", "UnicodeDecodeError"}

\* the frames written by the call, in order
Writes == SelectSeq(log, LAMBDA e : e.op = "write")

\* C14: in range and with every response the echoed letter and the
\* delimiter, set_channel writes the C frame with the coarse value first;
\* once the C response is read there is no further frame for a fine step of
\* 0, one D frame with the absolute value for a negative one, one I frame
\* for a positive one; a second frame comes only after the C response, and
\* there is never a third.
C14_CoarseThenOneFine ==
    (args.op = "set_channel" /\ CoarseInRange /\ AllAcknowledged) =>
      LET fl == WlFl(args.wl)
      IN  /\ Len(IO) >= 1
          /\ IO[1] = Evt("write", Frame("C", WlInt(args.wl)))
          /\ Len(Writes) <= 2
          /\ \A i \in 2..Len(IO) :
               IO[i].op = "write" =>
                 /\ i = 3
                 /\ IO[2].op = "read_until"
                 /\ fl # 0
                 /\ fl < 0 => IO[i].data = Frame("D", Abs(fl))
                 /\ fl > 0 => IO[i].data = Frame("I", fl)
          /\ Len(IO) >= 2 => Len(Writes) = (IF fl = 0 THEN 1 ELSE 2)

C14_Witness ==
    /\ args.op = "set_channel"
    /\ args.wl = 154960
    /\ AllAcknowledged
    /\ pc = "done"
    /\ outcome.kind = "return"
    /\ Len(Writes) = 2
    /\ Writes[2].data = <<"D", "0", "0", "0", "2", ",">>

\* a response to C, D or I that echoes the letter and carries a payload
\* before the delimiter
AckWithPayload(data, letter) ==
    /\ Decodable(data)
    /\ StartsWith(data, letter)
    /\ Find(data, " ") >= 2

\* C15 as stated: in set_channel a response that echoes the letter and
\* carries a payload before the delimiter does not make the exchange fail.
C15_PayloadAccepted ==
    (args.op = "set_channel" /\ EndedAtExchangeRead
       /\ AckWithPayload(LastRead, LastLetter(log))) =>
      outcome.kind = "return"

\* the index in the log of the write of the sweep trigger, 0 before it
TriggerAt ==
    IF \E i \in 1..Len(log) : log[i].op = "write" /\ log[i].data[1] = "S"
    THEN CHOOSE i \in 1..Len(log) : log[i].op = "write" /\ log[i].data[1] = "S"
    ELSE 0

\* the indices of the reads of the sweep loop
SweepReads ==
    IF TriggerAt = 0 THEN {}
    ELSE {i \in (TriggerAt + 1)..Len(log) : log[i].op = "read_until"}

\* the read goes on: it is empty or it starts with S
KeepsSweeping(data) == data = <<>> \/ StartsWith(data, "S")

\* C16 as stated: in the sweep loop an empty read is followed by another
\* read and raises nothing; every read but the last is empty or starts with
\* S; the loop has ended exactly when its last read is non-empty and does not
\* start with S, so that reads that are empty or start with S never end the
\* scan and the first other one does.
C16_EmptyReadRetries ==
    args.op = "scan" =>
      /\ \A i \in SweepReads :
           i < Len(log) => KeepsSweeping(log[i].data)
      /\ (SweepReads # {} /\ log[Len(log)].op = "read_until") =>
           /\ pc = "sweep" <=> KeepsSweeping(LastRead)
           /\ pc = "done" <=> ~KeepsSweeping(LastRead)
           /\ KeepsSweeping(LastRead) => outcome = NoOutcome
      /\ (pc = "done" /\ TriggerAt # 0) => SweepReads # {}

\* the call of scan or set_channel has ended and control is back at its caller
BackAtCaller == args.op \in {"scan", "set_channel"} /\ pc = "done"

\* C17 as stated: when scan or set_channel is back at its caller the buffers
\* were reset after the last byte read or written, and the input buffer
\* holds nothing.
C17_CleanOnReturn ==
    BackAtCaller =>
      /\ inbuf = <<>>
      /\ log[Len(log)].op = "reset_output_buffer"
      /\ log[Len(log) - 1].op = "reset_input_buffer"

\* C17, amended: scan and set_channel reset the input and the output buffer
\* on entry and again right before the write of every L, H, T, C, D and I
\* frame, so the input buffer is empty while such an exchange waits for its
\* response; they reset nothing after a read, and what the device sent after
\* the last frame read stays in the input buffer when the call returns.
C17_ResetOnEntry ==
    args.op \in {"scan", "set_channel"} =>
      /\ Len(log) >= 2
      /\ log[1].op = "reset_input_buffer"
      /\ log[2].op = "reset_output_buffer"
      /\ \A i \in 1..Len(log) :
           (log[i].op = "write" /\ log[i].data[1] # "S") =>
             /\ i >= 3
             /\ log[i - 2].op = "reset_input_buffer"
             /\ log[i - 1].op = "reset_output_buffer"
      /\ pc \in {"rdL", "rdH", "rdT", "rdC", "rdD", "rdI"} => inbuf = <<>>
      /\ \A i \in 3..Len(log) :
           log[i].op = "reset_input_buffer" =>
             i + 2 <= Len(log) /\ log[i + 2].op = "write"
      /\ (pc = "done" /\ Len(log) > 2) => log[Len(log)].op = "read_until"

C17_Witness ==
    /\ args.op = "scan"
    /\ pc = "done"
    /\ outcome.kind = "return"
    /\ LastRead = <<"o", "K", " ">>
    /\ inbuf = <<"S", "1", " ">>

\* C18: every frame written by scan and set_channel is one letter of L, H,
\* T, S, C, D, I, four decimal digits and the terminator ','.
C18_FrameShape ==
    args.op \in {"scan", "set_channel"} =>
      \A i \in 1..Len(Writes) :
        LET f == Writes[i].data
        IN  /\ Len(f) = 6
            /\ f[1] \in {"L", "H", "T", "S", "C", "D", "I"}
            /\ \A k \in 2..5 : f[k] \in {Digits[d] : d \in 1..10}
            /\ f[6] = ","

C18_Witness ==
    /\ args.op = "scan"
    /\ Len(Writes) = 4
    /\ Writes[3].data = <<"T", "0", "3", "0", "0", ",">>
    /\ Writes[4].data = <<"S", "0", "0", "0", "1", ",">>

\* C19 as stated: a scan whose parameters fail validation performs no
\* operation on the transport, buffer resets included.
C19_NoOperationBeforeValidation ==
    (args.op = "scan" /\ ~ScanInRange) => log = <<>>

\* C19, amended: scan resets the input and the output buffer of the handle
\* before it validates; these two resets are the only operations before
\* validation, and a call that fails validation performs them and nothing
\* else: no write, no flush, no read.
C19_OnlyResetsBeforeValidation ==
    args.op = "scan" =>
      /\ Len(log) >= 2
      /\ log[1] = Evt("reset_input_buffer", <<>>)
      /\ log[2] = Evt("reset_output_buffer", <<>>)
      /\ ~ScanInRange =>
           /\ Len(log) = 2
           /\ pc = "done"
           /\ outcome.exc = "ValueError"

C19_Witness ==
    /\ args.op = "scan"
    /\ args.stay = 3006
    /\ args.span = 0
    /\ pc = "done"
    /\ Len(log) = 2
    /\ log[1].op = "reset_input_buffer"

\* C20 as stated: when connect has ended, by a return or by raising, no port
\* it opened is open but the one it returns.
C20_OthersClosed ==
    (args.op = "connect" /\ pc = "done") =>
      OpenPorts \subseteq (IF outcome.kind = "return" /\ outcome.val.t = "Serial"
                           THEN {outcome.val.v} ELSE {})

====
